---- MODULE Spec2Model ----
(***************************************************************************)
(* Model of src/src/list_workspaces.py: the Alfred script filter that      *)
(* lists AeroSpace workspaces, windows and key bindings.                   *)
(*                                                                         *)
(* Python strings on which the program performs string operations (split,  *)
(* strip, lower, substring search, int) are sequences of one-character     *)
(* strings.  Three specifications share the variables:                     *)
(*   Spec         one run of main()                                        *)
(*   SpecResolve  a sequence of resolve_app_path calls on one cache        *)
(*   SpecConc     several invocations racing on the icon cache file        *)
(***************************************************************************)
EXTENDS Integers, Sequences, FiniteSets, TLC

\* ------------------------------------------------------------------ bounds
\* longest run of blanks between two tokens of a generated query
MaxSpaces == 2
\* number of resolve_app_path calls / clock advances explored by SpecResolve
MaxCalls == 4
MaxTicks == 3
\* clock resolution: time.time() is fractional, the stored ts is whole seconds
TicksPerSecond == 2
\* number of concurrently running invocations in SpecConc
NumProcs == 2

\* ------------------------------------------------------- Python str helpers
Whitespace == {" ", "\t"}

UpperChars == <<"A","B","C","D","E","F","G","H","I","J","K","L","M",
                "N","O","P","Q","R","S","T","U","V","W","X","Y","Z">>
LowerChars == <<"a","b","c","d","e","f","g","h","i","j","k","l","m",
                "n","o","p","q","r","s","t","u","v","w","x","y","z">>
DigitChars == <<"0","1","2","3","4","5","6","7","8","9">>

\* str.lower() on one character
LowerChar(c) ==
  IF \E i \in 1..26 : UpperChars[i] = c
  THEN LowerChars[CHOOSE i \in 1..26 : UpperChars[i] = c]
  ELSE c

\* str.lower()
Lower(s) == [i \in 1..Len(s) |-> LowerChar(s[i])]

\* needle in hay
Contains(hay, needle) ==
  \E i \in 0..(Len(hay) - Len(needle)) :
     \A j \in 1..Len(needle) : hay[i + j] = needle[j]

\* s[start:] with a 0-based start, as Python slices (start beyond the end
\* gives the empty string)
SliceFrom(s, start) ==
  IF start >= Len(s) THEN <<>> ELSE SubSeq(s, start + 1, Len(s))

RECURSIVE LStrip(_)
LStrip(s) ==
  IF s # <<>> /\ Head(s) \in Whitespace THEN LStrip(Tail(s)) ELSE s

RECURSIVE RStrip(_)
RStrip(s) ==
  IF s # <<>> /\ s[Len(s)] \in Whitespace
  THEN RStrip(SubSeq(s, 1, Len(s) - 1)) ELSE s

\* str.strip()
Strip(s) == RStrip(LStrip(s))

\* the leading run of non-blank characters of s
RECURSIVE TakeToken(_)
TakeToken(s) ==
  IF s = <<>> \/ Head(s) \in Whitespace THEN <<>>
  ELSE <<Head(s)>> \o TakeToken(Tail(s))

\* str.split() with no argument: the maximal runs of non-blank characters
RECURSIVE Split(_)
Split(s) ==
  LET t == LStrip(s) IN
  IF t = <<>> THEN <<>>
  ELSE LET tok == TakeToken(t)
       IN <<tok>> \o Split(SliceFrom(t, Len(tok)))

\* str.split(sep, maxsplit) for a one-character separator
RECURSIVE SplitOn(_, _, _)
SplitOn(s, sep, maxsplit) ==
  IF maxsplit = 0 \/ ~\E i \in 1..Len(s) : s[i] = sep THEN <<s>>
  ELSE LET i == CHOOSE k \in 1..Len(s) :
                   s[k] = sep /\ \A m \in 1..(k - 1) : s[m] # sep
       IN <<SubSeq(s, 1, i - 1)>> \o SplitOn(SliceFrom(s, i), sep, maxsplit - 1)

\* " ".join(parts)
RECURSIVE Join(_)
Join(parts) ==
  IF parts = <<>> THEN <<>>
  ELSE IF Len(parts) = 1 THEN parts[1]
  ELSE parts[1] \o <<" ">> \o Join(Tail(parts))

IsDigit(c) == \E i \in 1..10 : DigitChars[i] = c
DigitVal(c) == (CHOOSE i \in 1..10 : DigitChars[i] = c) - 1

RECURSIVE DigitsVal(_)
DigitsVal(s) ==
  IF s = <<>> THEN 0
  ELSE 10 * DigitsVal(SubSeq(s, 1, Len(s) - 1)) + DigitVal(s[Len(s)])

\* the digits of a literal accepted by int(): blanks stripped, optional sign
IntBody(s) ==
  LET t == Strip(s) IN
  IF t # <<>> /\ Head(t) \in {"+", "-"} THEN Tail(t) ELSE t

\* int(s) succeeds
IsIntLiteral(s) ==
  LET b == IntBody(s) IN b # <<>> /\ \A i \in 1..Len(b) : IsDigit(b[i])

\* int(s) for a literal that int() accepts
IntOf(s) ==
  LET t == Strip(s) IN
  IF Head(t) = "-" THEN 0 - DigitsVal(IntBody(s)) ELSE DigitsVal(IntBody(s))

RECURSIVE NatStr(_)
NatStr(n) ==
  IF n < 10 THEN <<DigitChars[n + 1]>>
  ELSE NatStr(n \div 10) \o <<DigitChars[(n % 10) + 1]>>

\* str(n) for an integer
Str(n) == IF n < 0 THEN <<"-">> \o NatStr(0 - n) ELSE NatStr(n)

\* ------------------------------------------------------- string literals
T_command == <<"c","o","m","m","a","n","d">>
T_commands == <<"c","o","m","m","a","n","d","s">>
T_hotkey == <<"h","o","t","k","e","y">>
T_hotkeys == <<"h","o","t","k","e","y","s">>
T_keys == <<"k","e","y","s">>
T_help == <<"h","e","l","p">>
T_move == <<"m","o","v","e">>
T_move_window == <<"m","o","v","e","-","w","i","n","d","o","w">>
T_action == <<"a","c","t","i","o","n">>
T_actions == <<"a","c","t","i","o","n","s">>
T_arrange == <<"a","r","r","a","n","g","e">>
S_empty == <<"e","m","p","t","y">>
S_window == <<"w","i","n","d","o","w">>
S_windows == <<"w","i","n","d","o","w","s">>
S_UnknownApp == <<"U","n","k","n","o","w","n"," ","A","p","p">>
S_Window == <<"W","i","n","d","o","w">>
S_IdSep == <<" ","-"," ","I","D"," ">>
S_WorkspaceSp == <<"W","o","r","k","s","p","a","c","e"," ">>
S_workspaceDash == <<"w","o","r","k","s","p","a","c","e","-">>
S_windowDash == <<"w","i","n","d","o","w","-">>
S_ActionsFor ==
  <<"A","c","t","i","o","n","s"," ","f","o","r"," ","t","h","i","s"," ",
    "w","o","r","k","s","p","a","c","e">>
S_actionSp == <<"a","c","t","i","o","n"," ">>
S_moveWindowSp == <<"m","o","v","e","-","w","i","n","d","o","w"," ">>
S_WsQueryFailed ==
  <<"A","e","r","o","S","p","a","c","e"," ","w","o","r","k","s","p","a",
    "c","e"," ","q","u","e","r","y"," ","f","a","i","l","e","d">>
S_KeysFailed ==
  <<"F","a","i","l","e","d"," ","t","o"," ","l","o","a","d"," ","A","e",
    "r","o","S","p","a","c","e"," ","k","e","y","b","i","n","d","i","n",
    "g","s">>

\* line 401: the first tokens that select the key-binding list
HotkeyTokens == {T_command, T_commands, T_hotkey, T_hotkeys, T_keys, T_help}
\* line 442
ActionTokens == {T_action, T_actions}

\* ------------------------------------------------------------ run_command
\* An outcome of run_command (lines 10-18) is a record
\*   [kind |-> "ok" | "nonzero" | "notfound", out |-> the captured stdout]
\* "nonzero" is check=True raising CalledProcessError, "notfound" is
\* subprocess.run raising FileNotFoundError for a missing executable.
RunExc(r) ==
  IF r.kind = "nonzero" THEN "CalledProcessError"
  ELSE IF r.kind = "notfound" THEN "FileNotFoundError"
  ELSE "none"

\* the exceptions the two handlers of main catch (lines 382 and 404)
CaughtByMain == {"CalledProcessError", "JSONDecodeError"}

\* lines 36-41: the loop over the decoded list; an element that is not an
\* object has no .get
RECURSIVE WorkspaceNames(_)
WorkspaceNames(elems) ==
  IF elems = <<>> THEN <<>>
  ELSE IF Head(elems).name # <<>>
       THEN <<Head(elems).name>> \o WorkspaceNames(Tail(elems))
       ELSE WorkspaceNames(Tail(elems))

\* fetch_workspaces; r.out is [json |-> "invalid" | "number" | "list",
\* elems |-> <<[isdict, name], ...>>], a missing, null or empty name being <<>>
fetch_workspaces(r) ==
  IF RunExc(r) # "none" THEN [exc |-> RunExc(r), names |-> <<>>]
  ELSE IF r.out.json = "invalid" THEN [exc |-> "JSONDecodeError", names |-> <<>>]
  ELSE IF r.out.json # "list" THEN [exc |-> "TypeError", names |-> <<>>]
  ELSE IF \E i \in 1..Len(r.out.elems) : ~r.out.elems[i].isdict
       THEN [exc |-> "AttributeError", names |-> <<>>]
  ELSE [exc |-> "none", names |-> WorkspaceNames(r.out.elems)]

\* lines 88-90: split on the first four tabs and pad to five columns
RECURSIVE PadTo(_, _)
PadTo(parts, n) == IF Len(parts) < n THEN PadTo(Append(parts, <<>>), n) ELSE parts

LineParts(line) == PadTo(SplitOn(line, "\t", 4), 5)

\* line 94: int(window_id) if window_id else None.  None is <<>>, an integer
\* n is <<n>>; int() raises ValueError on anything that is not a literal.
WindowIdRaises(line) ==
  LET wid == LineParts(line)[1] IN wid # <<>> /\ ~IsIntLiteral(wid)

ParseWindowLine(line) ==
  LET parts == LineParts(line) IN
  [window_id    |-> IF parts[1] # <<>> THEN <<IntOf(parts[1])>> ELSE <<>>,
   bundle_id    |-> parts[2],
   app_name     |-> parts[3],
   window_title |-> parts[4],
   workspace    |-> parts[5]]

\* lines 84-101: the loop over raw_windows.splitlines()
RECURSIVE ParseWindowLines(_)
ParseWindowLines(lines) ==
  IF lines = <<>> THEN [exc |-> "none", windows |-> <<>>]
  ELSE IF Strip(Head(lines)) = <<>> THEN ParseWindowLines(Tail(lines))
  ELSE IF WindowIdRaises(Head(lines)) THEN [exc |-> "ValueError", windows |-> <<>>]
  ELSE LET rest == ParseWindowLines(Tail(lines)) IN
       IF rest.exc # "none" THEN rest
       ELSE [exc |-> "none",
             windows |-> <<ParseWindowLine(Head(lines))>> \o rest.windows]

\* fetch_all_windows; r.out is the sequence of output lines
fetch_all_windows(r) ==
  IF RunExc(r) # "none" THEN [exc |-> RunExc(r), windows |-> <<>>]
  ELSE ParseWindowLines(r.out)

\* fetch_bindings; r.out is [json |-> "invalid" | "list" | "dict",
\* pairs |-> <<[hotkey, action], ...>>] in the order of the JSON object
fetch_bindings(r) ==
  IF RunExc(r) # "none" THEN [exc |-> RunExc(r), bindings |-> r.out]
  ELSE IF r.out.json = "invalid"
       THEN [exc |-> "JSONDecodeError", bindings |-> r.out]
  ELSE [exc |-> "none", bindings |-> r.out]

\* ------------------------------------------------------------- icon cache
\* line 44
CACHE_TTL_SECONDS == 7 * 24 * 60 * 60

\* The cache file holds a sequence of JSON tokens [t |-> "{"], [t |-> "}"],
\* [t |-> "[" ], [t |-> "]"], [t |-> "num"], [t |-> "entry", key, value].
\* A decoded cache is [type |-> "dict" | "list" | "number", map |-> pairs],
\* the pairs [key, value] in insertion order with distinct keys.  A value is
\* [kind, path, ts]: kind "dict" is an object with "path" and "ts" (absent
\* ts is 0), "badts" is an object whose ts is not a number, "str" is a value
\* that is not an object.
TokOpen == [t |-> "{", key |-> <<>>, value |-> [kind |-> "none", path |-> "", ts |-> 0]]
TokClose == [t |-> "}", key |-> <<>>, value |-> [kind |-> "none", path |-> "", ts |-> 0]]
TokLOpen == [t |-> "[", key |-> <<>>, value |-> [kind |-> "none", path |-> "", ts |-> 0]]
TokLClose == [t |-> "]", key |-> <<>>, value |-> [kind |-> "none", path |-> "", ts |-> 0]]
TokNum == [t |-> "num", key |-> <<>>, value |-> [kind |-> "none", path |-> "", ts |-> 0]]
TokEntry(k, v) == [t |-> "entry", key |-> k, value |-> v]

EmptyCache == [type |-> "dict", map |-> <<>>]

HasKey(map, k) == \E i \in 1..Len(map) : map[i].key = k
Lookup(map, k) == map[CHOOSE i \in 1..Len(map) : map[i].key = k].value

\* d[k] = v on a Python dict: an existing key keeps its position
DictSet(map, k, v) ==
  IF HasKey(map, k)
  THEN [i \in 1..Len(map) |->
          IF map[i].key = k THEN [key |-> k, value |-> v] ELSE map[i]]
  ELSE Append(map, [key |-> k, value |-> v])

RECURSIVE DictOfEntries(_)
DictOfEntries(toks) ==
  IF toks = <<>> THEN <<>>
  ELSE DictSet(DictOfEntries(SubSeq(toks, 1, Len(toks) - 1)),
               toks[Len(toks)].key, toks[Len(toks)].value)

\* the token sequence is one complete JSON document
IsJsonObject(toks) ==
  /\ Len(toks) >= 2
  /\ toks[1].t = "{"
  /\ toks[Len(toks)].t = "}"
  /\ \A i \in 2..(Len(toks) - 1) : toks[i].t = "entry"

IsJsonList(toks) == Len(toks) = 2 /\ toks[1].t = "[" /\ toks[2].t = "]"
IsJsonNumber(toks) == Len(toks) = 1 /\ toks[1].t = "num"
IsValidJson(toks) == IsJsonObject(toks) \/ IsJsonList(toks) \/ IsJsonNumber(toks)

\* json.load on the file content (line 60)
JsonLoad(toks) ==
  IF IsJsonObject(toks)
  THEN [type |-> "dict", map |-> DictOfEntries(SubSeq(toks, 2, Len(toks) - 1))]
  ELSE IF IsJsonList(toks) THEN [type |-> "list", map |-> <<>>]
  ELSE [type |-> "number", map |-> <<>>]

\* json.dump of a dict (line 69)
JsonDump(cache) ==
  <<TokOpen>> \o [i \in 1..Len(cache.map) |->
                    TokEntry(cache.map[i].key, cache.map[i].value)]
              \o <<TokClose>>

\* load_icon_cache, lines 56-62, on a cache location
\*   [dir_ok, exists, readable, writable, content]
\* get_cache_path (line 57) runs outside the try block: os.makedirs raising
\* OSError leaves load_icon_cache
load_icon_cache(f) ==
  IF ~f.dir_ok THEN [exc |-> "OSError", cache |-> EmptyCache]
  ELSE IF ~f.exists \/ ~f.readable THEN [exc |-> "none", cache |-> EmptyCache]
  ELSE IF ~IsValidJson(f.content) THEN [exc |-> "none", cache |-> EmptyCache]
  ELSE [exc |-> "none", cache |-> JsonLoad(f.content)]

\* save_icon_cache, lines 65-71: the file after the call; open(.., "w")
\* failing with OSError leaves it as it was
save_icon_cache(f, cache) ==
  IF ~f.writable THEN f
  ELSE [f EXCEPT !.exists = TRUE, !.content = JsonDump(cache)]

\* ------------------------------------------------------- resolve_app_path
\* The answers of the two search utilities to one lookup:
\*   [md |-> "fail" | "empty" | "path" | "notfound", md_path,
\*    osa |-> "fail" | "empty" | "path", osa_path, exists]
\* "fail" is a non-zero exit, "empty" is blank output (or a blank first
\* line), "notfound" the missing executable; exists is os.path.exists of the
\* path found.  The clock t counts ticks of 1/TicksPerSecond second.

\* mutant of EntryFresh: an entry exactly as old as the time-to-live is
\* still served
EntryFresh_inclusive(entry, t) ==
  entry.ts # 0 /\ (t - entry.ts * TicksPerSecond) <= CACHE_TTL_SECONDS * TicksPerSecond

\* line 122 on an entry that is an object with a numeric ts
EntryFresh(entry, t) ==
  entry.ts # 0 /\ (t - entry.ts * TicksPerSecond) < CACHE_TTL_SECONDS * TicksPerSecond

\* lines 117-123: the call returns from the cache
CacheHit(cache, bundle_id, t) ==
  /\ cache.type = "dict"
  /\ HasKey(cache.map, bundle_id)
  /\ Lookup(cache.map, bundle_id).kind = "dict"
  /\ EntryFresh(Lookup(cache.map, bundle_id), t)

\* lines 124-148: app_path after the two searches and the existence test
\* ("" stands for None)
SearchPath(env) ==
  LET first == IF env.md = "path" THEN env.md_path ELSE ""
      second == IF first # "" THEN first
                ELSE IF env.osa = "path" THEN env.osa_path ELSE ""
  IN IF second # "" /\ ~env.exists THEN "" ELSE second

\* the number of external commands lines 124-146 run
SearchCalls(env) == IF env.md = "path" THEN 1 ELSE 2

\* resolve_app_path, lines 112-150.  The result is
\*   [path, updated, cache, calls, exc]
\* path "" is None, calls the number of search commands started.
resolve_app_path(bundle_id, cache, t, env) ==
  IF bundle_id = <<>>
  THEN [path |-> "", updated |-> FALSE, cache |-> cache, calls |-> 0, exc |-> "none"]
  ELSE IF cache.type = "number"
  THEN [path |-> "", updated |-> FALSE, cache |-> cache, calls |-> 0, exc |-> "TypeError"]
  ELSE IF /\ cache.type = "dict"
          /\ HasKey(cache.map, bundle_id)
          /\ Lookup(cache.map, bundle_id).kind = "badts"
  THEN [path |-> "", updated |-> FALSE, cache |-> cache, calls |-> 0, exc |-> "TypeError"]
  ELSE IF CacheHit(cache, bundle_id, t)
  THEN [path |-> Lookup(cache.map, bundle_id).path, updated |-> FALSE,
        cache |-> cache, calls |-> 0, exc |-> "none"]
  ELSE IF env.md = "notfound"
  THEN [path |-> "", updated |-> FALSE, cache |-> cache, calls |-> 1,
        exc |-> "FileNotFoundError"]
  ELSE IF cache.type # "dict"
  THEN [path |-> "", updated |-> FALSE, cache |-> cache,
        calls |-> SearchCalls(env), exc |-> "TypeError"]
  ELSE [path |-> SearchPath(env), updated |-> TRUE,
        cache |-> [cache EXCEPT !.map =
                     DictSet(@, bundle_id,
                             [kind |-> "dict", path |-> SearchPath(env),
                              ts |-> t \div TicksPerSecond])],
        calls |-> SearchCalls(env), exc |-> "none"]

\* ------------------------------------------------------------ item builders
\* counts_by_workspace.get(name, 0) after lines 390-396: one is added for
\* every window whose workspace column is that (non-empty) name
RECURSIVE CountFor(_, _)
CountFor(windows, name) ==
  IF windows = <<>> THEN 0
  ELSE CountFor(Tail(windows), name)
       + (IF Head(windows).workspace # <<>> /\ Head(windows).workspace = name
          THEN 1 ELSE 0)

\* windows_by_workspace.get(name, []) after lines 390-396
WindowsOf(windows, name) ==
  SelectSeq(windows, LAMBDA w : w.workspace # <<>> /\ w.workspace = name)

\* mutant of QuerySkips: the text searched is not lower-cased
QuerySkips_case_sensitive(query, haystack) ==
  Lower(query) # <<>> /\ ~Contains(haystack, Lower(query))

\* lines 165, 259, 363: the record is skipped
QuerySkips(query, haystack) ==
  Lower(query) # <<>> /\ ~Contains(Lower(haystack), Lower(query))

\* mutant of WorkspaceSubtitle: the label is always plural
WorkspaceSubtitle_plural(count) ==
  IF count = 0 THEN S_empty ELSE Str(count) \o <<" ">> \o S_windows

\* lines 171-175
WorkspaceSubtitle(count) ==
  IF count = 0 THEN S_empty
  ELSE Str(count) \o <<" ">> \o (IF count = 1 THEN S_window ELSE S_windows)

\* mutant of ModeAction: the move-window mode falls into the last branch
ModeAction_no_move_window(mode) ==
  IF mode = "browse" THEN "focus-workspace"
  ELSE IF mode = "move-focused" THEN "move-focused-to-workspace"
  ELSE "focus-workspace"

\* lines 177-184
ModeAction(mode) ==
  IF mode = "browse" THEN "focus-workspace"
  ELSE IF mode = "move-focused" THEN "move-focused-to-workspace"
  ELSE IF mode = "move-window" THEN "move-window-to-workspace"
  ELSE "focus-workspace"

\* lines 186-188; window_id <<>> is None
WorkspaceVariables(name, mode, window_id) ==
  IF mode = "move-window" /\ window_id # <<>>
  THEN [action |-> ModeAction(mode), workspace |-> name, window_id |-> window_id]
  ELSE [action |-> ModeAction(mode), workspace |-> name]

\* lines 200-241: the modifier-key variants (their subtitles are fixed
\* display text and are left out)
WorkspaceMods(name, mode, window_id) ==
  IF mode = "browse"
  THEN [cmd |-> [arg |-> name,
                 variables |-> [action |-> "move-focused-to-workspace",
                                workspace |-> name]],
        alt |-> [arg |-> name,
                 variables |-> [action |-> "move-focused-to-workspace-follow",
                                workspace |-> name]]]
  ELSE IF mode = "move-focused"
  THEN [alt |-> [arg |-> name,
                 variables |-> [action |-> "move-focused-to-workspace-follow",
                                workspace |-> name]]]
  ELSE [alt |-> [arg |-> name,
                 variables |-> [action |-> "move-window-to-workspace-follow",
                                workspace |-> name,
                                window_id |-> window_id]]]

\* lines 190-243: the item of one workspace
WorkspaceItem(name, count, mode, window_id, enable_autocomplete) ==
  LET item == [kind |-> "workspace",
               title |-> S_WorkspaceSp \o name,
               subtitle |-> WorkspaceSubtitle(count),
               arg |-> name,
               uid |-> S_workspaceDash \o name,
               variables |-> WorkspaceVariables(name, mode, window_id)]
      withAuto == IF enable_autocomplete
                  THEN item @@ ("autocomplete" :> (name \o <<" ">>))
                  ELSE item
  IN IF mode \in {"browse", "move-focused", "move-window"}
     THEN withAuto @@ ("mods" :> WorkspaceMods(name, mode, window_id))
     ELSE withAuto

\* build_workspace_items, lines 153-244: the loop from workspace i on
RECURSIVE WorkspaceLoop(_, _, _, _, _, _, _, _)
WorkspaceLoop(i, workspaces, query, include_empty, mode, windows, window_id, enable_autocomplete) ==
  IF i > Len(workspaces) THEN <<>>
  ELSE LET name == workspaces[i]
           count == CountFor(windows, name)
           rest == WorkspaceLoop(i + 1, workspaces, query, include_empty, mode,
                                 windows, window_id, enable_autocomplete)
       IN IF QuerySkips(query, name) THEN rest
          ELSE IF count <= 0 /\ ~include_empty THEN rest
          ELSE <<WorkspaceItem(name, count, mode, window_id,
                               enable_autocomplete)>> \o rest

build_workspace_items(workspaces, query, include_empty, mode, windows, window_id, enable_autocomplete) ==
  WorkspaceLoop(1, workspaces, query, include_empty, mode, windows, window_id,
                enable_autocomplete)

\* lines 254-279: the item of one window, before the icon is attached
WindowItem(workspace, window) ==
  LET app_name == IF window.app_name # <<>> THEN window.app_name ELSE S_UnknownApp
      window_title == window.window_title
      has_id == window.window_id # <<>>
      id_str == IF has_id THEN Str(window.window_id[1]) ELSE <<>>
      base_subtitle == IF window_title # <<>> THEN app_name ELSE S_Window
      item == [kind |-> "window",
               title |-> IF window_title # <<>> THEN window_title ELSE app_name,
               subtitle |-> IF has_id THEN base_subtitle \o S_IdSep \o id_str
                            ELSE base_subtitle,
               arg |-> id_str,
               variables |-> [action |-> "focus-window",
                              workspace |-> workspace,
                              window_id |-> id_str]]
  IN IF has_id
     THEN item @@ ("autocomplete" :> (S_moveWindowSp \o id_str \o <<" ">>))
               @@ ("uid" :> (S_windowDash \o id_str))
     ELSE item

\* lines 254-258: the text the query is searched in
WindowHaystack(window) ==
  (IF window.app_name # <<>> THEN window.app_name ELSE S_UnknownApp)
    \o <<" ">> \o window.window_title

\* the answers used when no search is run (empty bundle id)
NoSearch ==
  [md |-> "empty", md_path |-> "", osa |-> "empty", osa_path |-> "", exists |-> FALSE]

\* build_window_items, lines 247-286: the loop from window i on, with the
\* cache as the previous iterations left it.  envs gives the answers of the
\* search utilities for each bundle id.  The result is
\*   [items, cache_updated, cache, exc]
RECURSIVE WindowLoop(_, _, _, _, _, _, _)
WindowLoop(i, workspace, windows, query, cache, t, envs) ==
  IF i > Len(windows)
  THEN [items |-> <<>>, cache_updated |-> FALSE, cache |-> cache, exc |-> "none"]
  ELSE LET window == windows[i] IN
       IF QuerySkips(query, WindowHaystack(window))
       THEN WindowLoop(i + 1, workspace, windows, query, cache, t, envs)
       ELSE LET env == IF window.bundle_id = <<>> THEN NoSearch
                       ELSE envs[window.bundle_id]
                r == resolve_app_path(window.bundle_id, cache, t, env)
            IN IF r.exc # "none"
               THEN [items |-> <<>>, cache_updated |-> FALSE, cache |-> r.cache,
                     exc |-> r.exc]
               ELSE LET rest == WindowLoop(i + 1, workspace, windows, query,
                                           r.cache, t, envs)
                        base == WindowItem(workspace, window)
                        item == IF r.path # ""
                                THEN base @@ ("icon" :>
                                       [type |-> "fileicon", path |-> r.path])
                                ELSE base
                    IN [items |-> <<item>> \o rest.items,
                        cache_updated |-> r.updated \/ rest.cache_updated,
                        cache |-> rest.cache,
                        exc |-> rest.exc]

build_window_items(workspace, windows, query, icon_cache, t, envs) ==
  WindowLoop(1, workspace, windows, query, icon_cache, t, envs)

\* build_workspace_action_items, lines 289-324 (titles and subtitles are
\* fixed display text and are left out)
build_workspace_action_items(workspace) ==
  << [kind |-> "action", arg |-> workspace,
      variables |-> [action |-> "focus-workspace", workspace |-> workspace]],
     [kind |-> "action", arg |-> workspace,
      variables |-> [action |-> "move-focused-to-workspace",
                     workspace |-> workspace]],
     [kind |-> "action", arg |-> workspace,
      variables |-> [action |-> "move-focused-to-workspace-follow",
                     workspace |-> workspace]],
     [kind |-> "action", autocomplete |-> workspace \o <<" ">>,
      valid |-> FALSE] >>

Directions == <<"left", "right", "up", "down">>

\* build_arrange_items, lines 327-353
build_arrange_items ==
  [i \in 1..4 |-> [kind |-> "arrange", arg |-> Directions[i],
                   variables |-> [action |-> "move-focused-direction",
                                  direction |-> Directions[i]]]]
  \o
  [i \in 1..4 |-> [kind |-> "arrange", arg |-> Directions[i],
                   variables |-> [action |-> "swap-focused-direction",
                                  direction |-> Directions[i]]]]

\* line 362
HotkeyHaystack(pair) == pair.action \o <<" ">> \o pair.hotkey

\* build_hotkey_items, lines 356-373: the loop over bindings.items()
RECURSIVE HotkeyLoop(_, _, _)
HotkeyLoop(i, pairs, query) ==
  IF i > Len(pairs) THEN <<>>
  ELSE IF QuerySkips(query, HotkeyHaystack(pairs[i]))
       THEN HotkeyLoop(i + 1, pairs, query)
  ELSE << [kind |-> "hotkey",
           title |-> pairs[i].action,
           subtitle |-> pairs[i].hotkey,
           arg |-> pairs[i].hotkey,
           text |-> [copy |-> pairs[i].hotkey, largetype |-> pairs[i].hotkey]] >>
       \o HotkeyLoop(i + 1, pairs, query)

build_hotkey_items(pairs, query) == HotkeyLoop(1, pairs, query)

\* mutant of alfred_error_item: the error item is left actionable
alfred_error_item_actionable(title, subtitle) ==
  [items |-> << [kind |-> "error", title |-> title, subtitle |-> subtitle] >>]

\* alfred_error_item, lines 21-30; the subtitle is the text of the exception
alfred_error_item(title, subtitle) ==
  [items |-> << [kind |-> "error", title |-> title, subtitle |-> subtitle,
                 valid |-> FALSE] >>]

\* ------------------------------------------------------------ query parsing
\* lines 399-400
FirstToken(query) == Split(query)[1]
Remainder(query) == Strip(SliceFrom(query, Len(FirstToken(query))))

\* lines 428-430
MoveWindowRemainder(query) ==
  LET tokens == Split(query)
      remainder_start == Len(tokens[1]) + Len(tokens[2]) + 1
  IN Strip(SliceFrom(query, remainder_start))

InSeq(x, seq) == \E i \in 1..Len(seq) : seq[i] = x

\* lines 398-487: the branch of main that prints the payload
Route(query, workspaces) ==
  IF query = <<>> THEN "default"
  ELSE LET tokens == Split(query)
           first_token == tokens[1]
       IN IF first_token \in HotkeyTokens THEN "hotkey"
          ELSE IF first_token = T_move THEN "move"
          ELSE IF first_token = T_move_window /\ Len(tokens) >= 2
               THEN "move-window"
          ELSE IF first_token \in ActionTokens
               THEN IF Len(tokens) >= 2 /\ InSeq(tokens[2], workspaces)
                    THEN "action-menu" ELSE "action-list"
          ELSE IF first_token = T_arrange THEN "arrange"
          ELSE IF InSeq(first_token, workspaces) THEN "windows"
          ELSE "default"

\* ------------------------------------------------------------------ inputs
Spaces(n) == [i \in 1..n |-> " "]
Separators == {Spaces(n) : n \in 1..MaxSpaces} \cup {<<"\t">>}

FirstTokens ==
  HotkeyTokens \cup ActionTokens
    \cup {T_move, T_move_window, T_arrange, <<"1">>, <<"A","b">>, <<"x">>}
SecondTokens == {<<"4","2">>, <<"1">>, <<"a">>}
ThirdTokens == {<<"1">>, <<"B">>}

\* sys.argv[1:]: Alfred passes the typed text as one argument; a shell
\* passes one argument per word
Argvs ==
  {<<>>, <<Spaces(1)>>}
    \cup {<<a>> : a \in FirstTokens}
    \cup {<<a, b>> : a \in FirstTokens, b \in SecondTokens}
    \cup {<<a \o s \o b>> : a \in FirstTokens, s \in Separators, b \in SecondTokens}
    \cup {<<a \o s \o b \o s \o c>> :
            a \in FirstTokens, s \in Separators, b \in SecondTokens, c \in ThirdTokens}

\* line 377
QueryOf(argv) == Strip(Join(argv))
Queries == {QueryOf(argv) : argv \in Argvs}

Ok(out) == [kind |-> "ok", out |-> out]
Failed(kind, out) == [kind |-> kind, out |-> out]

WsObj(name) == [isdict |-> TRUE, name |-> name]
WsJson(elems) == [json |-> "list", elems |-> elems]
NoJson == [json |-> "invalid", elems |-> <<>>]

\* what `aerospace list-workspaces --all --json` can answer
WorkspaceOutcomes ==
  { Ok(WsJson(<<WsObj(<<"1">>), WsObj(<<"2">>), WsObj(<<"A","b">>)>>)),
    Ok(WsJson(<<WsObj(<<>>), WsObj(<<"1">>), WsObj(<<"2">>)>>)),
    Ok(WsJson(<<WsObj(<<"1">>), [isdict |-> FALSE, name |-> <<>>]>>)),
    Ok([json |-> "number", elems |-> <<>>]),
    Ok(NoJson),
    Failed("nonzero", NoJson),
    Failed("notfound", NoJson) }

RECURSIVE TabJoin(_)
TabJoin(cols) ==
  IF Len(cols) = 1 THEN cols[1]
  ELSE cols[1] \o <<"\t">> \o TabJoin(Tail(cols))

\* what `aerospace list-windows --all --format ...` can answer, as lines
WindowOutcomes ==
  { Ok(<< TabJoin(<< <<"4","2">>, <<"a">>, <<"S","a">>, <<"D","o","c">>, <<"1">> >>),
          TabJoin(<< <<"7">>, <<"b">>, <<"T","e">>, <<>>, <<"1">> >>),
          TabJoin(<< <<"9">>, <<"a">>, <<"S","a">>, <<"L","o","g">>, <<"1">> >>),
          TabJoin(<< <<>>, <<"a">>, <<>>, <<"B","1">>, <<"A","b">> >>) >>),
    Ok(<< TabJoin(<< <<"5">>, <<"a">>, <<"M","a">> >>),
          Spaces(2),
          TabJoin(<< <<"8">>, <<>>, <<"S","a">>, <<"x">>, <<"9">> >>),
          TabJoin(<< <<"0","4","2">>, <<"b">>, <<"T","e">>, <<"a">>, <<"2">> >>),
          TabJoin(<< <<"6">>, <<"b">>, <<"T","e">>, <<"B">>, <<"2">> >>) >>),
    Ok(<< TabJoin(<< <<"4","2">>, <<"a">>, <<"S","a">>, <<"D","o","c">>, <<"1">> >>),
          TabJoin(<< <<"a","b","c">>, <<"a">>, <<"S","a">>, <<"D","o","c">>, <<"1">> >>) >>),
    Ok(<<>>),
    Failed("nonzero", <<>>),
    Failed("notfound", <<>>) }

Binding(hotkey, action) == [hotkey |-> hotkey, action |-> action]
NoBindings == [json |-> "invalid", pairs |-> <<>>]

\* what `aerospace config --get mode.main.binding --json` can answer
BindingOutcomes ==
  { Ok([json |-> "dict",
        pairs |-> << Binding(<<"a","-","1">>, <<"W","1">>),
                     Binding(<<"c">>, <<"Q">>),
                     Binding(<<"a","-","b">>, <<"F","B">>) >>]),
    Ok([json |-> "list", pairs |-> <<>>]),
    Ok(NoBindings),
    Failed("nonzero", NoBindings),
    Failed("notfound", NoBindings) }

\* the answers of mdfind and osascript to one lookup
ResolveEnvs ==
  { [md |-> "path", md_path |-> "/md.app", osa |-> "empty", osa_path |-> "",
     exists |-> e] : e \in BOOLEAN }
  \cup
  { [md |-> m, md_path |-> "", osa |-> o, osa_path |-> "", exists |-> FALSE] :
      m \in {"fail", "empty"}, o \in {"fail", "empty"} }
  \cup
  { [md |-> m, md_path |-> "", osa |-> "path", osa_path |-> "/osa.app",
     exists |-> e] : m \in {"fail", "empty"}, e \in BOOLEAN }
  \cup
  { [md |-> "notfound", md_path |-> "", osa |-> "empty", osa_path |-> "",
     exists |-> FALSE] }

\* the clock of a run of main, in ticks
Now0 == 3 * CACHE_TTL_SECONDS * TicksPerSecond + 1
NowSeconds == Now0 \div TicksPerSecond

CacheEntry(path, ts) == [kind |-> "dict", path |-> path, ts |-> ts]
CacheLocation(dir_ok, exists, readable, writable, content) ==
  [dir_ok |-> dir_ok, exists |-> exists, readable |-> readable,
   writable |-> writable, content |-> content]

GoodContent ==
  << TokOpen,
     TokEntry(<<"a">>, CacheEntry("/A.app", NowSeconds - 10)),
     TokEntry(<<"b">>, CacheEntry("/B.app", NowSeconds - CACHE_TTL_SECONDS)),
     TokClose >>

\* the states the cache location can be in when main starts
CacheLocations ==
  { CacheLocation(FALSE, FALSE, FALSE, FALSE, <<>>),
    CacheLocation(TRUE, FALSE, TRUE, TRUE, <<>>),
    CacheLocation(TRUE, TRUE, FALSE, TRUE, GoodContent),
    CacheLocation(TRUE, TRUE, TRUE, TRUE,
      <<TokOpen, TokEntry(<<"a">>, CacheEntry("/A.app", NowSeconds))>>),
    CacheLocation(TRUE, TRUE, TRUE, TRUE, <<TokLOpen, TokLClose>>),
    CacheLocation(TRUE, TRUE, TRUE, TRUE, <<TokNum>>),
    CacheLocation(TRUE, TRUE, TRUE, TRUE, GoodContent),
    CacheLocation(TRUE, TRUE, TRUE, FALSE, GoodContent),
    CacheLocation(TRUE, TRUE, TRUE, TRUE,
      << TokOpen,
         TokEntry(<<"a">>, [kind |-> "str", path |-> "", ts |-> 0]),
         TokEntry(<<"b">>, CacheEntry("", NowSeconds - 1)),
         TokClose >>),
    CacheLocation(TRUE, TRUE, TRUE, TRUE,
      << TokOpen,
         TokEntry(<<"a">>, [kind |-> "badts", path |-> "/A.app", ts |-> 0]),
         TokClose >>) }

\* ------------------------------------------------------------------- state
VARIABLES
  pc,            \* position of the run: "load_cache", "fetch_workspaces",
                 \* "fetch_windows", "dispatch", "done", "crashed"
  query,         \* line 377
  cache_file,    \* the cache location on disk
  icon_cache,    \* line 378
  workspaces,    \* line 380
  windows,       \* line 381
  bindings,      \* line 403
  call,          \* the arguments of the builder call that made the payload
  built,         \* what that builder returned
  stdout,        \* the payloads printed so far
  exit_code,     \* the value main returned, -1 before it returns
  error,         \* the exception that left main uncaught, and where
  fetch_failed,  \* the fetch that exited non-zero or printed unparsable JSON
  now,           \* the clock, in ticks
  res_log,       \* SpecResolve: the last resolve_app_path call
  ticks,         \* SpecResolve: clock advances made
  procs          \* SpecConc: the racing invocations

vars == <<pc, query, cache_file, icon_cache, workspaces, windows, bindings,
          call, built, stdout, exit_code, error, fetch_failed, now, res_log,
          ticks, procs>>

NoError == [exc |-> "none", site |-> "none"]
NoCall == [branch |-> "none", builder |-> "none", query |-> <<>>,
           include_empty |-> FALSE, mode |-> "none", window_id |-> <<>>,
           enable_autocomplete |-> FALSE]
NoLog == [n |-> 0, bundle_id |-> <<>>, hit |-> FALSE, calls |-> 0,
          path |-> "", last |-> <<>>]

Init ==
  /\ pc = "load_cache"
  /\ query \in Queries
  /\ cache_file \in CacheLocations
  /\ icon_cache = EmptyCache
  /\ workspaces = <<>>
  /\ windows = <<>>
  /\ bindings = NoBindings
  /\ call = NoCall
  /\ built = <<>>
  /\ stdout = <<>>
  /\ exit_code = -1
  /\ error = NoError
  /\ fetch_failed = "none"
  /\ now = Now0
  /\ res_log = NoLog
  /\ ticks = 0
  /\ procs = <<>>

\* an exception no handler catches ends the run without a payload
Raise(exc, site) ==
  /\ pc' = "crashed"
  /\ error' = [exc |-> exc, site |-> site]
  /\ UNCHANGED <<stdout, exit_code>>

\* print(json.dumps({"items": items})); return code
Emit(payload, code) ==
  /\ pc' = "done"
  /\ stdout' = Append(stdout, payload)
  /\ exit_code' = code
  /\ error' = error

\* the claim's notion of a failed fetch: non-zero exit or unparsable JSON
FetchFailure(r, is_json) ==
  r.kind = "nonzero" \/ (is_json /\ r.kind = "ok" /\ r.out.json = "invalid")

\* line 378
LoadIconCache ==
  /\ pc = "load_cache"
  /\ LET r == load_icon_cache(cache_file) IN
       IF r.exc # "none"
       THEN /\ Raise(r.exc, "load_icon_cache")
            /\ UNCHANGED icon_cache
       ELSE /\ icon_cache' = r.cache
            /\ pc' = "fetch_workspaces"
            /\ UNCHANGED <<stdout, exit_code, error>>
  /\ UNCHANGED <<query, cache_file, workspaces, windows, bindings, call, built,
                 fetch_failed, now, res_log, ticks, procs>>

\* lines 379-380 and the handler of lines 382-388
FetchWorkspaces ==
  /\ pc = "fetch_workspaces"
  /\ \E r \in WorkspaceOutcomes :
       LET f == fetch_workspaces(r) IN
       /\ fetch_failed' = IF FetchFailure(r, TRUE) THEN "workspaces" ELSE fetch_failed
       /\ IF f.exc \in CaughtByMain
          THEN /\ Emit(alfred_error_item(S_WsQueryFailed, f.exc), 1)
               /\ UNCHANGED workspaces
          ELSE IF f.exc # "none"
          THEN /\ Raise(f.exc, "fetch_workspaces")
               /\ UNCHANGED workspaces
          ELSE /\ workspaces' = f.names
               /\ pc' = "fetch_windows"
               /\ UNCHANGED <<stdout, exit_code, error>>
  /\ UNCHANGED <<query, cache_file, icon_cache, windows, bindings, call, built,
                 now, res_log, ticks, procs>>

\* line 381 and the handler of lines 382-388
FetchAllWindows ==
  /\ pc = "fetch_windows"
  /\ \E r \in WindowOutcomes :
       LET f == fetch_all_windows(r) IN
       /\ fetch_failed' = IF FetchFailure(r, FALSE) THEN "windows" ELSE fetch_failed
       /\ IF f.exc \in CaughtByMain
          THEN /\ Emit(alfred_error_item(S_WsQueryFailed, f.exc), 1)
               /\ UNCHANGED windows
          ELSE IF f.exc # "none"
          THEN /\ Raise(f.exc, "fetch_all_windows")
               /\ UNCHANGED windows
          ELSE /\ windows' = f.windows
               /\ pc' = "dispatch"
               /\ UNCHANGED <<stdout, exit_code, error>>
  /\ UNCHANGED <<query, cache_file, icon_cache, workspaces, bindings, call,
                 built, now, res_log, ticks, procs>>

Call(branch, builder, q, include_empty, mode, window_id, enable_autocomplete) ==
  [branch |-> branch, builder |-> builder, query |-> q,
   include_empty |-> include_empty, mode |-> mode, window_id |-> window_id,
   enable_autocomplete |-> enable_autocomplete]

\* a branch that calls build_workspace_items and prints what it returns
WorkspaceBranch(branch, q, include_empty, mode, window_id, enable_autocomplete) ==
  LET items == build_workspace_items(workspaces, q, include_empty, mode,
                                     windows, window_id, enable_autocomplete)
  IN /\ call' = Call(branch, "workspace", q, include_empty, mode, window_id,
                     enable_autocomplete)
     /\ built' = items
     /\ Emit([items |-> items], 0)
     /\ UNCHANGED <<query, cache_file, icon_cache, workspaces, windows,
                    bindings, fetch_failed, now, res_log, ticks, procs>>

\* lines 401-413
HotkeyBranch ==
  /\ pc = "dispatch"
  /\ Route(query, workspaces) = "hotkey"
  /\ \E r \in BindingOutcomes :
       LET f == fetch_bindings(r) IN
       /\ fetch_failed' = IF FetchFailure(r, TRUE) THEN "bindings" ELSE fetch_failed
       /\ IF f.exc \in CaughtByMain
          THEN /\ Emit(alfred_error_item(S_KeysFailed, f.exc), 1)
               /\ UNCHANGED <<bindings, call, built>>
          ELSE IF f.exc # "none"
          THEN /\ Raise(f.exc, "fetch_bindings")
               /\ UNCHANGED <<bindings, call, built>>
          ELSE IF f.bindings.json # "dict"
          THEN /\ Raise("AttributeError", "build_hotkey_items")
               /\ bindings' = f.bindings
               /\ UNCHANGED <<call, built>>
          ELSE LET items == build_hotkey_items(f.bindings.pairs, Remainder(query))
               IN /\ bindings' = f.bindings
                  /\ call' = Call("hotkey", "hotkey", Remainder(query), FALSE,
                                  "none", <<>>, FALSE)
                  /\ built' = items
                  /\ Emit([items |-> items], 0)
  /\ UNCHANGED <<query, cache_file, icon_cache, workspaces, windows, now,
                 res_log, ticks, procs>>

\* lines 414-424
MoveBranch ==
  /\ pc = "dispatch"
  /\ Route(query, workspaces) = "move"
  /\ WorkspaceBranch("move", Remainder(query), TRUE, "move-focused", <<>>, FALSE)

\* lines 425-441
MoveWindowBranch ==
  /\ pc = "dispatch"
  /\ Route(query, workspaces) = "move-window"
  /\ WorkspaceBranch("move-window", MoveWindowRemainder(query), TRUE,
                     "move-window", Split(query)[2], FALSE)

\* lines 442-449
ActionMenuBranch ==
  /\ pc = "dispatch"
  /\ Route(query, workspaces) = "action-menu"
  /\ LET items == build_workspace_action_items(Split(query)[2]) IN
       /\ call' = Call("action-menu", "action", <<>>, FALSE, "none", <<>>, FALSE)
       /\ built' = items
       /\ Emit([items |-> items], 0)
  /\ UNCHANGED <<query, cache_file, icon_cache, workspaces, windows, bindings,
                 fetch_failed, now, res_log, ticks, procs>>

\* lines 458-461
ActionListItem(item) ==
  [f \in (DOMAIN item) \cup {"subtitle", "autocomplete", "valid"} |->
     IF f = "subtitle" THEN S_ActionsFor
     ELSE IF f = "autocomplete" THEN S_actionSp \o item.arg \o <<" ">>
     ELSE IF f = "valid" THEN FALSE
     ELSE item[f]]

\* lines 450-463
ActionListBranch ==
  /\ pc = "dispatch"
  /\ Route(query, workspaces) = "action-list"
  /\ LET items == build_workspace_items(workspaces, Remainder(query), TRUE,
                                        "browse", windows, <<>>, FALSE)
     IN /\ call' = Call("action-list", "workspace", Remainder(query), TRUE,
                        "browse", <<>>, FALSE)
        /\ built' = items
        /\ Emit([items |-> [i \in 1..Len(items) |-> ActionListItem(items[i])]], 0)
  /\ UNCHANGED <<query, cache_file, icon_cache, workspaces, windows, bindings,
                 fetch_failed, now, res_log, ticks, procs>>

\* lines 464-467
ArrangeBranch ==
  /\ pc = "dispatch"
  /\ Route(query, workspaces) = "arrange"
  /\ call' = Call("arrange", "arrange", <<>>, FALSE, "none", <<>>, FALSE)
  /\ built' = build_arrange_items
  /\ Emit([items |-> build_arrange_items], 0)
  /\ UNCHANGED <<query, cache_file, icon_cache, workspaces, windows, bindings,
                 fetch_failed, now, res_log, ticks, procs>>

BundleIdsOf(ws) == {ws[i].bundle_id : i \in 1..Len(ws)} \ {<<>>}

\* lines 468-476
WindowsBranch ==
  /\ pc = "dispatch"
  /\ Route(query, workspaces) = "windows"
  /\ LET first_token == FirstToken(query)
         workspace_windows == WindowsOf(windows, first_token)
     IN \E envs \in [BundleIdsOf(workspace_windows) -> ResolveEnvs] :
          LET r == build_window_items(first_token, workspace_windows,
                                      Remainder(query), icon_cache, now, envs)
          IN IF r.exc # "none"
             THEN /\ Raise(r.exc, "resolve_app_path")
                  /\ icon_cache' = r.cache
                  /\ UNCHANGED <<cache_file, call, built>>
             ELSE /\ icon_cache' = r.cache
                  /\ cache_file' = IF r.cache_updated
                                   THEN save_icon_cache(cache_file, r.cache)
                                   ELSE cache_file
                  /\ call' = Call("windows", "window", Remainder(query), FALSE,
                                  "none", <<>>, FALSE)
                  /\ built' = r.items
                  /\ Emit([items |-> r.items], 0)
  /\ UNCHANGED <<query, workspaces, windows, bindings, fetch_failed, now,
                 res_log, ticks, procs>>

\* lines 478-487
DefaultBranch ==
  /\ pc = "dispatch"
  /\ Route(query, workspaces) = "default"
  /\ WorkspaceBranch("default", query, FALSE, "browse", <<>>, TRUE)

Next ==
  \/ LoadIconCache
  \/ FetchWorkspaces
  \/ FetchAllWindows
  \/ HotkeyBranch
  \/ MoveBranch
  \/ MoveWindowBranch
  \/ ActionMenuBranch
  \/ ActionListBranch
  \/ ArrangeBranch
  \/ WindowsBranch
  \/ DefaultBranch

Spec == Init /\ [][Next]_vars

\* ===================================================== properties of a run
Finished == pc \in {"done", "crashed"}
Payload == stdout[1]
Printed == pc = "done" /\ exit_code = 0

\* the query is a substring of the text, both lower-cased; an empty query
\* matches everything
ClaimMatches(q, text) == q = <<>> \/ Contains(Lower(text), Lower(q))

\* the number of fetched windows whose workspace field is the name
WindowCount(name) ==
  Cardinality({i \in 1..Len(windows) : windows[i].workspace = name})

\* C1: every run of main ends having printed exactly one payload: no run
\* ends by an uncaught error before printing, and none prints twice.
C1_ExactlyOnePayload == Finished => Len(stdout) = 1

\* C2: when a workspace, window or key-binding fetch exits non-zero or
\* prints unparsable JSON, the run ends with exit code 1 and one payload of
\* exactly one item, which has valid = false and is the error item; for the
\* workspace list its title is "AeroSpace workspace query failed".
C2_FetchFailureSingleErrorItem ==
  fetch_failed # "none" =>
    /\ pc = "done"
    /\ exit_code = 1
    /\ Len(stdout) = 1
    /\ Len(Payload.items) = 1
    /\ Payload.items[1].kind = "error"
    /\ "valid" \in DOMAIN Payload.items[1]
    /\ Payload.items[1].valid = FALSE
    /\ (fetch_failed = "workspaces" => Payload.items[1].title = S_WsQueryFailed)

C2_Witness ==
  /\ fetch_failed = "bindings"
  /\ pc = "done"
  /\ Len(stdout) = 1
  /\ Payload.items[1].title = S_KeysFailed

\* C3: no content of a window line makes fetch_all_windows raise: a
\* window-id column that is not a number yields a null window id.
C3_WindowLineParseNeverRaises ==
  ~(pc = "crashed" /\ error.site = "fetch_all_windows" /\ error.exc = "ValueError")

\* C4: no state of the cache location is fatal: the run never ends by an
\* error raised while locating or loading the cache or while using what
\* was loaded.
C4_CacheNeverFatal ==
  ~(/\ pc = "crashed"
    /\ \/ error.site = "load_icon_cache"
       \/ error.site = "resolve_app_path" /\ error.exc = "TypeError")

\* the subtitle the claim gives a workspace with n windows
ClaimSubtitle(n) ==
  IF n = 0 THEN S_empty
  ELSE IF n = 1 THEN <<"1", " ">> \o S_window
  ELSE Str(n) \o <<" ">> \o S_windows

\* C6: build_workspace_items emits an item for a matching workspace if and
\* only if it has at least one window or include_empty is set; the count
\* is the number of fetched windows of that workspace; the subtitle is
\* "empty", "1 window" or "<n> windows".
C6_WorkspaceCountAndSubtitle ==
  (Printed /\ call.builder = "workspace") =>
    /\ \A i \in 1..Len(workspaces) :
         ClaimMatches(call.query, workspaces[i]) =>
           ((\E k \in 1..Len(built) : built[k].arg = workspaces[i])
              <=> (WindowCount(workspaces[i]) >= 1 \/ call.include_empty))
    /\ \A k \in 1..Len(built) :
         built[k].subtitle = ClaimSubtitle(WindowCount(built[k].arg))

C6_Witness ==
  /\ Printed
  /\ call.branch = "default"
  /\ \E i \in 1..Len(workspaces) :
       /\ ClaimMatches(call.query, workspaces[i])
       /\ WindowCount(workspaces[i]) = 0
  /\ \E k \in 1..Len(built) : WindowCount(built[k].arg) = 1
  /\ \E k \in 1..Len(built) : WindowCount(built[k].arg) >= 2

\* what identifies the window an item was made from
WindowKey(w) ==
  [title |-> IF w.window_title # <<>> THEN w.window_title
             ELSE IF w.app_name # <<>> THEN w.app_name ELSE S_UnknownApp,
   arg |-> IF w.window_id # <<>> THEN Str(w.window_id[1]) ELSE <<>>]

BuiltKeys == [k \in 1..Len(built) |-> [title |-> built[k].title, arg |-> built[k].arg]]
BuiltArgs == [k \in 1..Len(built) |-> built[k].arg]
BuiltPairs == [k \in 1..Len(built) |-> Binding(built[k].subtitle, built[k].title)]
KeysOf(ws) == [k \in 1..Len(ws) |-> WindowKey(ws[k])]

\* C7 as stated: the emitted items are exactly the input records whose
\* match text (workspace name, "<app-name> <window-title>", "<action>
\* <hotkey>") contains the query case-insensitively, in input order.
C7_FilterExactlyMatching ==
  Printed =>
    /\ call.builder = "workspace" =>
         BuiltArgs = SelectSeq(workspaces, LAMBDA n : ClaimMatches(call.query, n))
    /\ call.builder = "window" =>
         BuiltKeys = KeysOf(SelectSeq(WindowsOf(windows, FirstToken(query)),
                       LAMBDA w : ClaimMatches(call.query,
                                    w.app_name \o <<" ">> \o w.window_title)))
    /\ call.builder = "hotkey" =>
         BuiltPairs = SelectSeq(bindings.pairs,
                        LAMBDA p : ClaimMatches(call.query,
                                     p.action \o <<" ">> \o p.hotkey))

\* C7 amended: as C7, where the workspace builder also drops a workspace
\* without windows unless include_empty is set, and the window builder
\* matches against "Unknown App" in place of an empty app name.
C7_FilterAmended ==
  Printed =>
    /\ call.builder = "workspace" =>
         BuiltArgs = SelectSeq(workspaces,
                       LAMBDA n : /\ ClaimMatches(call.query, n)
                                  /\ (call.include_empty \/ WindowCount(n) >= 1))
    /\ call.builder = "window" =>
         BuiltKeys = KeysOf(SelectSeq(WindowsOf(windows, FirstToken(query)),
                       LAMBDA w : ClaimMatches(call.query,
                                    (IF w.app_name = <<>> THEN S_UnknownApp
                                     ELSE w.app_name)
                                    \o <<" ">> \o w.window_title)))
    /\ call.builder = "hotkey" =>
         BuiltPairs = SelectSeq(bindings.pairs,
                        LAMBDA p : ClaimMatches(call.query,
                                     p.action \o <<" ">> \o p.hotkey))

C7_Witness ==
  /\ Printed
  /\ call.builder = "window"
  /\ call.query = <<"a">>
  /\ Len(built) = 2
  /\ Len(WindowsOf(windows, FirstToken(query))) = 3

\* the text after the second token of the query, blanks stripped
TextAfterSecondToken(q) ==
  LET first == TakeToken(q)
      rest == LStrip(SliceFrom(q, Len(first)))
      second == TakeToken(rest)
  IN Strip(SliceFrom(rest, Len(second)))

\* C8: a query `move-window W <rest>`, with any blanks between the tokens,
\* gives workspace items in move-window mode with empty workspaces
\* included, filtered by exactly <rest>, each carrying window_id = W in its
\* variables and in its alt variant.
C8_MoveWindowFilterIsRest ==
  (/\ Printed
   /\ query # <<>>
   /\ TakeToken(query) = T_move_window
   /\ Len(Split(query)) >= 2) =>
    /\ call.builder = "workspace"
    /\ call.mode = "move-window"
    /\ call.include_empty
    /\ call.query = TextAfterSecondToken(query)
    /\ \A k \in 1..Len(Payload.items) :
         /\ Payload.items[k].variables.window_id = Split(query)[2]
         /\ Payload.items[k].mods.alt.variables.window_id = Split(query)[2]

Actions ==
  {"focus-workspace", "move-focused-to-workspace",
   "move-focused-to-workspace-follow", "move-window-to-workspace",
   "move-window-to-workspace-follow", "focus-window",
   "move-focused-direction", "swap-focused-direction"}

\* C9: every action variable of the printed payload, primary or in a
\* modifier variant, is one of the eight actions, and the primary action
\* of a workspace item is focus-workspace, move-focused-to-workspace or
\* move-window-to-workspace in browse, move-focused and move-window mode.
C9_ActionsEnumerated ==
  pc = "done" =>
    \A k \in 1..Len(Payload.items) :
      LET item == Payload.items[k] IN
      /\ "variables" \in DOMAIN item => item.variables.action \in Actions
      /\ "mods" \in DOMAIN item =>
           \A m \in DOMAIN item.mods : item.mods[m].variables.action \in Actions
      /\ item.kind = "workspace" =>
           /\ call.mode = "browse" => item.variables.action = "focus-workspace"
           /\ call.mode = "move-focused" =>
                item.variables.action = "move-focused-to-workspace"
           /\ call.mode = "move-window" =>
                item.variables.action = "move-window-to-workspace"

C9_Witness ==
  /\ pc = "done"
  /\ call.mode = "move-window"
  /\ Len(Payload.items) >= 2
  /\ Payload.items[1].mods.alt.variables.action = "move-window-to-workspace-follow"

\* ============================ a sequence of resolve_app_path calls (C5)
IdleLocation == CacheLocation(TRUE, FALSE, TRUE, TRUE, <<>>)

\* clock advances: one tick, and two ticks short of the time-to-live
Jumps == {1, CACHE_TTL_SECONDS * TicksPerSecond - 2}

InitResolve ==
  /\ pc = "resolving"
  /\ query = <<>>
  /\ cache_file = IdleLocation
  /\ icon_cache = EmptyCache
  /\ workspaces = <<>>
  /\ windows = <<>>
  /\ bindings = NoBindings
  /\ call = NoCall
  /\ built = <<>>
  /\ stdout = <<>>
  /\ exit_code = -1
  /\ error = NoError
  /\ fetch_failed = "none"
  /\ now = Now0
  /\ res_log = NoLog
  /\ ticks = 0
  /\ procs = <<>>

\* one call of resolve_app_path on the cache; res_log keeps what the call
\* did and, in last, what the latest search for each bundle id returned
ResolveCall ==
  /\ pc = "resolving"
  /\ res_log.n < MaxCalls
  /\ \E bundle_id \in {<<>>, <<"a">>, <<"b">>}, env \in ResolveEnvs :
       LET r == resolve_app_path(bundle_id, icon_cache, now, env) IN
       /\ icon_cache' = r.cache
       /\ res_log' = [n |-> res_log.n + 1,
                      bundle_id |-> bundle_id,
                      hit |-> CacheHit(icon_cache, bundle_id, now),
                      calls |-> r.calls,
                      path |-> r.path,
                      last |-> IF r.updated
                               THEN DictSet(res_log.last, bundle_id, r.path)
                               ELSE res_log.last]
  /\ UNCHANGED <<pc, query, cache_file, workspaces, windows, bindings, call,
                 built, stdout, exit_code, error, fetch_failed, now, ticks,
                 procs>>

\* time passes between two calls
Tick ==
  /\ pc = "resolving"
  /\ ticks < MaxTicks
  /\ \E d \in Jumps : now' = now + d
  /\ ticks' = ticks + 1
  /\ UNCHANGED <<pc, query, cache_file, icon_cache, workspaces, windows,
                 bindings, call, built, stdout, exit_code, error, fetch_failed,
                 res_log, procs>>

NextResolve == ResolveCall \/ Tick

SpecResolve == InitResolve /\ [][NextResolve]_vars

\* the cache holds an entry for the id whose age is below the time-to-live
ClaimFreshEntry(cache, bundle_id, t) ==
  \E i \in 1..Len(cache.map) :
    /\ cache.map[i].key = bundle_id
    /\ t - cache.map[i].value.ts * TicksPerSecond
         < CACHE_TTL_SECONDS * TicksPerSecond

\* C5: a call with a non-empty bundle id runs an external search exactly
\* when the cache holds no entry for the id younger than the time-to-live;
\* a search stores its result, a failure as the empty path, with the
\* current timestamp, overwriting the old entry; a call answered from the
\* cache returns what the latest search for the id returned.
C5_SearchIffNoFreshEntry ==
  [][ (res_log'.n # res_log.n /\ res_log'.bundle_id # <<>>) =>
        LET b == res_log'.bundle_id IN
        /\ (res_log'.calls > 0) <=> ~ClaimFreshEntry(icon_cache, b, now)
        /\ (res_log'.calls > 0 /\ icon_cache' # icon_cache) =>
             /\ Lookup(icon_cache'.map, b).path = res_log'.path
             /\ Lookup(icon_cache'.map, b).ts = now \div TicksPerSecond
        /\ (res_log'.calls = 0) =>
             /\ icon_cache' = icon_cache
             /\ HasKey(res_log.last, b)
             /\ res_log'.path = Lookup(res_log.last, b)
    ]_vars

C5_Witness ==
  /\ pc = "resolving"
  /\ res_log.n >= 2
  /\ res_log.bundle_id = <<"a">>
  /\ res_log.calls = 0
  /\ res_log.path = ""
  /\ ticks >= 1

\* ===================== invocations racing on the icon cache file (C10)
\* Each invocation runs the cache steps of main in order: load_icon_cache
\* (line 378), the resolve_app_path calls of build_window_items (line 470),
\* then save_icon_cache (line 474), whose open(path, "w") truncates the
\* file and whose json.dump output reaches the file, at offset 0 of the
\* invocation's own descriptor, when the handle is flushed on close.
ProcIds == 1..NumProcs

ConcEnvs ==
  { [md |-> "path", md_path |-> "/md.app", osa |-> "empty", osa_path |-> "",
     exists |-> TRUE],
    [md |-> "empty", md_path |-> "", osa |-> "fail", osa_path |-> "",
     exists |-> FALSE] }

InitConc ==
  /\ pc = "racing"
  /\ query = <<>>
  /\ cache_file \in
       { CacheLocation(TRUE, FALSE, TRUE, TRUE, <<>>),
         CacheLocation(TRUE, TRUE, TRUE, TRUE,
           <<TokOpen, TokEntry(<<"x">>, CacheEntry("/X.app", NowSeconds - 10)),
             TokClose>>) }
  /\ icon_cache = EmptyCache
  /\ workspaces = <<>>
  /\ windows = <<>>
  /\ bindings = NoBindings
  /\ call = NoCall
  /\ built = <<>>
  /\ stdout = <<>>
  /\ exit_code = -1
  /\ error = NoError
  /\ fetch_failed = "none"
  /\ now = Now0
  /\ res_log = NoLog
  /\ ticks = 0
  /\ procs = [p \in ProcIds |-> [pc |-> "load", cache |-> EmptyCache]]

ConcUnchanged ==
  UNCHANGED <<pc, query, icon_cache, workspaces, windows, bindings, call,
              built, stdout, exit_code, error, fetch_failed, now, res_log,
              ticks>>

\* line 378 in invocation p
ProcLoad(p) ==
  /\ pc = "racing"
  /\ procs[p].pc = "load"
  /\ procs' = [procs EXCEPT ![p] =
                 [pc |-> "resolve", cache |-> load_icon_cache(cache_file).cache]]
  /\ UNCHANGED cache_file
  /\ ConcUnchanged

\* lines 470-473 in invocation p: one window whose icon is looked up; a
\* cache that was not updated is not saved
ProcResolve(p) ==
  /\ pc = "racing"
  /\ procs[p].pc = "resolve"
  /\ \E bundle_id \in {<<"a">>, <<"x">>}, env \in ConcEnvs :
       LET r == resolve_app_path(bundle_id, procs[p].cache, now, env) IN
       procs' = [procs EXCEPT ![p] =
                   [pc |-> IF r.updated THEN "open" ELSE "done",
                    cache |-> r.cache]]
  /\ UNCHANGED cache_file
  /\ ConcUnchanged

\* line 68 in invocation p: open(cache_path, "w") truncates the file
ProcOpen(p) ==
  /\ pc = "racing"
  /\ procs[p].pc = "open"
  /\ cache_file' = [cache_file EXCEPT !.exists = TRUE, !.content = <<>>]
  /\ procs' = [procs EXCEPT ![p].pc = "write"]
  /\ ConcUnchanged

\* writing data at offset 0 of a file: what lies beyond the data stays
WriteAtStart(content, data) ==
  IF Len(content) > Len(data)
  THEN data \o SubSeq(content, Len(data) + 1, Len(content))
  ELSE data

\* lines 69-70 in invocation p: the dumped text is written when the with
\* block closes the handle
ProcWrite(p) ==
  /\ pc = "racing"
  /\ procs[p].pc = "write"
  /\ cache_file' = [cache_file EXCEPT
                      !.content = WriteAtStart(@, JsonDump(procs[p].cache))]
  /\ procs' = [procs EXCEPT ![p].pc = "done"]
  /\ ConcUnchanged

NextConc ==
  \E p \in ProcIds : ProcLoad(p) \/ ProcResolve(p) \/ ProcOpen(p) \/ ProcWrite(p)

SpecConc == InitConc /\ [][NextConc]_vars

AllDone == pc = "racing" /\ \A p \in ProcIds : procs[p].pc = "done"

\* C10: when every racing invocation has finished, the cache file holds a
\* whole JSON object written by one of them (or the one it held at the
\* start), never a mix of two writes.
C10_FileStaysWholeJson ==
  (AllDone /\ cache_file.exists) => IsJsonObject(cache_file.content)

====
